---- MODULE Spec2Model ----
(***************************************************************************)
(* Model of boxext's `impl<T> BoxExt for Box<T>` (src/src/lib.rs): the     *)
(* five construction entry points, the raw allocation primitive            *)
(* try_new_box / new_box they share, and the platform allocator they call  *)
(* (alloc, alloc_zeroed, handle_alloc_error).                              *)
(*                                                                         *)
(* Storage is modelled byte by byte.  A byte is a number in 0..MaxByte or  *)
(* Poison, the content of storage obtained from `alloc` and not written    *)
(* yet.  The target types are plain data (no drop glue).                   *)
(***************************************************************************)
EXTENDS Integers, Sequences, FiniteSets

\* ------------------------------------------------------------------ bounds
NumThreads == 2      \* threads of the concurrent specification
NumAddrs == 2        \* blocks the platform allocator can hand out
MaxByte == 1         \* bytes range over 0..MaxByte

\* --------------------------------------------------------------- constants
Null == 0            \* the null pointer (raw.is_null())

Poison == MaxByte + 1   \* an uninitialized byte

\* ------------------------------------------------------------ target types
\* size_of, align_of and whether `T: Zero` holds
Unit == [name |-> "Unit", size |-> 0, align |-> 1, zero |-> TRUE]
Pad2 == [name |-> "Pad2", size |-> 0, align |-> 2, zero |-> FALSE]
U8 == [name |-> "u8", size |-> 1, align |-> 1, zero |-> TRUE]
U16 == [name |-> "u16", size |-> 2, align |-> 2, zero |-> TRUE]

Types == {Unit, Pad2, U8, U16}

ConcTypes == {Unit, U8}

Threads == 1..NumThreads

SeqThreads == {1}

MaxAlign == CHOOSE m \in {T.align : T \in Types} : \A T \in Types : T.align <= m

\* Addresses the allocator can return; they lie above every dangling sentinel.
HeapAddrs == (MaxAlign + 1)..(MaxAlign + NumAddrs)

\* The values of a type: every byte string of its size.
Values(T) == [1..T.size -> 0..MaxByte]

Zeros(n) == [i \in 1..n |-> 0]

Uninit(n) == [i \in 1..n |-> Poison]

IsInit(bytes) == \A i \in DOMAIN bytes : bytes[i] # Poison

\* ------------------------------------------------------------ entry points
EntryPoints == {"new_with", "new_zeroed", "try_new", "try_new_with", "try_new_zeroed"}

WithEntries == {"new_with", "try_new_with"}

ZeroedEntries == {"new_zeroed", "try_new_zeroed"}

FallibleEntries == {"try_new", "try_new_with", "try_new_zeroed"}

\* The entry points that allocate through new_box.
UsesNewBox_Leaky(e) == e \in {"new_with", "new_zeroed", "try_new"}

UsesNewBox(e) == e \in {"new_with", "new_zeroed"}

\* The `zeroed` argument each entry point passes to (try_)new_box.
ZeroedArg_AlwaysFalse(e) == FALSE

ZeroedArg(e) == e \in ZeroedEntries

NoArg == [kind |-> "none", val |-> <<>>]

\* The arguments a caller can pass: a value x, or a producer f that returns a
\* value or panics.
CallArgs(e, T) ==
  IF e = "try_new" THEN {[kind |-> "value", val |-> v] : v \in Values(T)}
  ELSE IF e \in WithEntries
    THEN {[kind |-> "returns", val |-> v] : v \in Values(T)} \cup {[kind |-> "panics", val |-> <<>>]}
  ELSE {NoArg}

\* ------------------------------------------------------- platform allocator
Layout(T) == [size |-> T.size, align |-> T.align]

FreeBlock == [live |-> FALSE, bytes |-> <<>>, owner |-> 0, writers |-> {}]

\* What alloc / alloc_zeroed may answer: null, or a free block of the alignment.
AllocAnswers(h, layout) ==
  {Null} \cup {a \in HeapAddrs : ~h[a].live /\ a % layout.align = 0}

\* The heap after the allocator handed out block a to thread t.
Allocate(h, a, mode, layout, t) ==
  [h EXCEPT ![a] = [live |-> TRUE,
                    bytes |-> IF mode = "alloc_zeroed" THEN Zeros(layout.size) ELSE Uninit(layout.size),
                    owner |-> t,
                    writers |-> {}]]

Dealloc(h, a) == [h EXCEPT ![a] = FreeBlock]

\* ----------------------------------------------------- raw allocation (4.1)
\* NonNull::<T>::dangling().as_ptr()
Dangling(T) == T.align

\* Which allocator function try_new_box calls.
AllocMode_NoZstCase(layout, zeroed) ==
  IF zeroed THEN "alloc_zeroed" ELSE "alloc"

AllocMode_IgnoresZeroed(layout, zeroed) ==
  IF layout.size = 0 THEN "none" ELSE "alloc"

AllocMode(layout, zeroed) ==
  IF layout.size = 0 THEN "none"
  ELSE IF zeroed THEN "alloc_zeroed"
  ELSE "alloc"

\* try_new_box::<T>(zeroed), given the allocator's answer.
try_new_box(T, zeroed, answer) ==
  LET layout == Layout(T)
      raw == IF AllocMode(layout, zeroed) = "none" THEN Dangling(T) ELSE answer
  IN IF raw # Null
       THEN [ok |-> TRUE, box |-> raw, layout |-> layout]
       ELSE [ok |-> FALSE, box |-> Null, layout |-> layout]

\* new_box::<T>(zeroed): the layout handed to handle_alloc_error on Err(l).
new_box_WrongLayout(T, zeroed, answer) ==
  LET r == try_new_box(T, zeroed, answer)
  IN [aborts |-> ~r.ok, box |-> r.box, hook |-> [size |-> 0, align |-> r.layout.align]]

new_box(T, zeroed, answer) ==
  LET r == try_new_box(T, zeroed, answer)
  IN [aborts |-> ~r.ok, box |-> r.box, hook |-> r.layout]

\* ------------------------------------------------- construction layer (4.2)
\* The statement that follows the allocation in each entry point.
AfterAlloc_SkipsProducer(e) ==
  IF e \in WithEntries \/ e = "try_new" THEN "write" ELSE "return"

AfterAlloc_SkipsWrite(e) ==
  IF e \in WithEntries THEN "call_f" ELSE "return"

AfterAlloc(e) ==
  IF e \in WithEntries THEN "call_f"
  ELSE IF e = "try_new" THEN "write"
  ELSE "return"

\* ptr::write(b.as_mut(), x): the bytes of the block afterwards.
PtrWrite_Nop(old, x) == old

PtrWrite(old, x) == x

\* The address ptr::write stores through: b.as_mut().
WriteTarget_Shared(box) == IF box \in HeapAddrs THEN MaxAlign + 1 ELSE box

WriteTarget(box) == box

\* The value try_new moves into the box.
MovedValue_Zeroed(x) == [i \in DOMAIN x |-> 0]

MovedValue(x) == x

\* -------------------------------------------------------------------- state
VARIABLES
  pc,         \* per thread: the statement it is at
  entry,      \* per thread: the entry point being executed
  ty,         \* per thread: the type parameter T
  arg,        \* per thread: the argument (x or f)
  b,          \* per thread: the local `b`, the address held by the Box
  produced,   \* per thread: the value to write (x, or the result of f())
  result,     \* per thread: what the call returned
  trace,      \* per thread: the steps the call performed, in order
  req,        \* per thread: the allocator request of the call
  dropLog,    \* per thread: Box<T> dropped while unwinding
  heap,       \* the allocator's blocks
  hookCalls   \* the layouts passed to handle_alloc_error

vars == <<pc, entry, ty, arg, b, produced, result, trace, req, dropLog, heap, hookCalls>>

NoReq == [mode |-> "none", size |-> 0, align |-> 0, ret |-> Null]

Pending == [kind |-> "pending", box |-> Null]

Init ==
  /\ pc = [t \in Threads |-> "idle"]
  /\ entry = [t \in Threads |-> "none"]
  /\ ty = [t \in Threads |-> Unit]
  /\ arg = [t \in Threads |-> NoArg]
  /\ b = [t \in Threads |-> Null]
  /\ produced = [t \in Threads |-> <<>>]
  /\ result = [t \in Threads |-> Pending]
  /\ trace = [t \in Threads |-> <<>>]
  /\ req = [t \in Threads |-> NoReq]
  /\ dropLog = [t \in Threads |-> <<>>]
  /\ heap = [a \in HeapAddrs |-> FreeBlock]
  /\ hookCalls = <<>>

\* handle_alloc_error never returns: the process is gone.
Alive == hookCalls = <<>>

\* ------------------------------------------------------------------ actions
\* A caller invokes entry point e for type T with argument a.
\* new_zeroed / try_new_zeroed only compile for T: Zero.
Call(t, e, T, a) ==
  /\ Alive
  /\ pc[t] = "idle"
  /\ e \in ZeroedEntries => T.zero
  /\ a \in CallArgs(e, T)
  /\ pc' = [pc EXCEPT ![t] = "try_new_box"]
  /\ entry' = [entry EXCEPT ![t] = e]
  /\ ty' = [ty EXCEPT ![t] = T]
  /\ arg' = [arg EXCEPT ![t] = a]
  /\ produced' = [produced EXCEPT ![t] = IF e = "try_new" THEN MovedValue(a.val) ELSE <<>>]
  /\ UNCHANGED <<b, result, trace, req, dropLog, heap, hookCalls>>

\* `let mut b = new_box::<T>(zeroed)` or `try_new_box::<T>(zeroed).ok()?`
TryNewBox(t) ==
  /\ Alive
  /\ pc[t] = "try_new_box"
  /\ LET T == ty[t]
         e == entry[t]
         layout == Layout(T)
         zeroed == ZeroedArg(e)
         mode == AllocMode(layout, zeroed)
     IN \E answer \in (IF mode = "none" THEN {Null} ELSE AllocAnswers(heap, layout)) :
          LET r == try_new_box(T, zeroed, answer)
              n == new_box(T, zeroed, answer)
          IN /\ heap' = IF mode # "none" /\ answer # Null
                          THEN Allocate(heap, answer, mode, layout, t)
                          ELSE heap
             /\ req' = [req EXCEPT ![t] =
                          IF mode = "none" THEN NoReq
                          ELSE [mode |-> mode, size |-> layout.size,
                                align |-> layout.align, ret |-> answer]]
             /\ trace' = [trace EXCEPT ![t] = Append(@, "try_new_box")]
             /\ IF UsesNewBox(e)
                  THEN IF n.aborts
                         THEN /\ hookCalls' = Append(hookCalls, n.hook)
                              /\ pc' = [pc EXCEPT ![t] = "aborted"]
                              /\ UNCHANGED <<b, result>>
                         ELSE /\ b' = [b EXCEPT ![t] = n.box]
                              /\ pc' = [pc EXCEPT ![t] = AfterAlloc(e)]
                              /\ UNCHANGED <<hookCalls, result>>
                  ELSE IF r.ok
                         THEN /\ b' = [b EXCEPT ![t] = r.box]
                              /\ pc' = [pc EXCEPT ![t] = AfterAlloc(e)]
                              /\ UNCHANGED <<hookCalls, result>>
                         ELSE /\ result' = [result EXCEPT ![t] = [kind |-> "None", box |-> Null]]
                              /\ pc' = [pc EXCEPT ![t] = "done"]
                              /\ UNCHANGED <<hookCalls, b>>
  /\ UNCHANGED <<entry, ty, arg, produced, dropLog>>

\* `f()` returns a value.
ProducerReturns(t) ==
  /\ Alive
  /\ pc[t] = "call_f"
  /\ arg[t].kind = "returns"
  /\ produced' = [produced EXCEPT ![t] = arg[t].val]
  /\ trace' = [trace EXCEPT ![t] = Append(@, "f")]
  /\ pc' = [pc EXCEPT ![t] = "write"]
  /\ UNCHANGED <<entry, ty, arg, b, result, req, dropLog, heap, hookCalls>>

\* `f()` panics: the unwinding drops the local `b`, a Box<T> whose storage
\* was not written, and gives the block back to the allocator.
ProducerPanics(t) ==
  /\ Alive
  /\ pc[t] = "call_f"
  /\ arg[t].kind = "panics"
  /\ trace' = [trace EXCEPT ![t] = Append(@, "f")]
  /\ dropLog' = [dropLog EXCEPT ![t] =
                   <<[box |-> b[t],
                      init |-> IF ty[t].size = 0 THEN TRUE ELSE IsInit(heap[b[t]].bytes)]>>]
  /\ heap' = IF ty[t].size = 0 THEN heap ELSE Dealloc(heap, b[t])
  /\ result' = [result EXCEPT ![t] = [kind |-> "panic", box |-> Null]]
  /\ pc' = [pc EXCEPT ![t] = "done"]
  /\ UNCHANGED <<entry, ty, arg, b, produced, req, hookCalls>>

\* `ptr::write(b.as_mut(), x)`
Write(t) ==
  /\ Alive
  /\ pc[t] = "write"
  /\ LET a == WriteTarget(b[t])
     IN heap' = IF a \in HeapAddrs
                  THEN [heap EXCEPT ![a].bytes = PtrWrite(@, produced[t]),
                                    ![a].writers = @ \cup {t}]
                  ELSE heap
  /\ trace' = [trace EXCEPT ![t] = Append(@, "write")]
  /\ pc' = [pc EXCEPT ![t] = "return"]
  /\ UNCHANGED <<entry, ty, arg, b, produced, result, req, dropLog, hookCalls>>

\* `b`, `Some(b)`: the Box goes to the caller.
Return(t) ==
  /\ Alive
  /\ pc[t] = "return"
  /\ result' = [result EXCEPT ![t] = [kind |-> "Some", box |-> b[t]]]
  /\ pc' = [pc EXCEPT ![t] = "done"]
  /\ UNCHANGED <<entry, ty, arg, b, produced, trace, req, dropLog, heap, hookCalls>>

\* The caller is done with what it got; a Box it holds is dropped.
Release(t) ==
  /\ Alive
  /\ pc[t] = "done"
  /\ heap' = IF result[t].kind = "Some" /\ ty[t].size # 0
               THEN Dealloc(heap, result[t].box)
               ELSE heap
  /\ pc' = [pc EXCEPT ![t] = "idle"]
  /\ entry' = [entry EXCEPT ![t] = "none"]
  /\ ty' = [ty EXCEPT ![t] = Unit]
  /\ arg' = [arg EXCEPT ![t] = NoArg]
  /\ b' = [b EXCEPT ![t] = Null]
  /\ produced' = [produced EXCEPT ![t] = <<>>]
  /\ result' = [result EXCEPT ![t] = Pending]
  /\ trace' = [trace EXCEPT ![t] = <<>>]
  /\ req' = [req EXCEPT ![t] = NoReq]
  /\ dropLog' = [dropLog EXCEPT ![t] = <<>>]
  /\ UNCHANGED hookCalls

\* ----------------------------------------------------------- specifications
\* One caller, every type.
SeqCall == \E t \in SeqThreads, e \in EntryPoints, T \in Types : \E a \in CallArgs(e, T) : Call(t, e, T, a)

SeqTryNewBox == \E t \in SeqThreads : TryNewBox(t)

SeqProducerReturns == \E t \in SeqThreads : ProducerReturns(t)

SeqProducerPanics == \E t \in SeqThreads : ProducerPanics(t)

SeqWrite == \E t \in SeqThreads : Write(t)

SeqReturn == \E t \in SeqThreads : Return(t)

SeqRelease == \E t \in SeqThreads : Release(t)

Next ==
  \/ SeqCall
  \/ SeqTryNewBox
  \/ SeqProducerReturns
  \/ SeqProducerPanics
  \/ SeqWrite
  \/ SeqReturn
  \/ SeqRelease

Spec == Init /\ [][Next]_vars

\* Several callers at once, interleaved statement by statement.
\* The concurrent callers pass the all-zero and the all-MaxByte value only.
ConcArgs(e, T) ==
  {a \in CallArgs(e, T) : a.val \in {Zeros(Len(a.val)), [i \in DOMAIN a.val |-> MaxByte]}}

ConcCall == \E t \in Threads, e \in EntryPoints, T \in ConcTypes : \E a \in ConcArgs(e, T) : Call(t, e, T, a)

ConcTryNewBox == \E t \in Threads : TryNewBox(t)

ConcProducerReturns == \E t \in Threads : ProducerReturns(t)

ConcProducerPanics == \E t \in Threads : ProducerPanics(t)

ConcWrite == \E t \in Threads : Write(t)

ConcReturn == \E t \in Threads : Return(t)

ConcRelease == \E t \in Threads : Release(t)

NextConc ==
  \/ ConcCall
  \/ ConcTryNewBox
  \/ ConcProducerReturns
  \/ ConcProducerPanics
  \/ ConcWrite
  \/ ConcReturn
  \/ ConcRelease

SpecConc == Init /\ [][NextConc]_vars

\* --------------------------------------------------------------- properties
InCall(t) == pc[t] # "idle"

Allocated(t) == \E i \in DOMAIN trace[t] : trace[t][i] = "try_new_box"

\* The platform allocator was asked and answered null.
AllocFailed(t) == req[t].mode # "none" /\ req[t].ret = Null

Returned(t) == result[t].kind = "Some"

\* The bytes of the value a returned Box owns.
Contents(t) == IF ty[t].size = 0 THEN <<>> ELSE heap[result[t].box].bytes

Count(seq, x) == Cardinality({i \in DOMAIN seq : seq[i] = x})

IsPrefix(p, q) == Len(p) <= Len(q) /\ \A i \in 1..Len(p) : p[i] = q[i]

ProducerSteps == <<"try_new_box", "f", "write">>

\* C1 (as stated): a fallible entry point ends in exactly one of two ways:
\* None when the allocator answered null (and the process lives on), Some(box)
\* when the allocation succeeded; there is no third outcome.
C1_TwoOutcomesOnly ==
  \A t \in Threads :
    entry[t] \in FallibleEntries /\ Allocated(t) =>
      /\ pc[t] # "aborted"
      /\ AllocFailed(t) => pc[t] = "done" /\ result[t].kind = "None"
      /\ ~AllocFailed(t) /\ pc[t] = "done" => result[t].kind = "Some"
      /\ pc[t] = "done" => result[t].kind \in {"None", "Some"}

\* C1 (amended): a fallible entry point returns None exactly when the
\* allocator answered null, and never calls handle_alloc_error; when the
\* allocation succeeded it returns Some(box) over initialized storage, unless
\* the producer given to try_new_with panicked, in which case the panic
\* propagates and nothing is returned.
C1_FallibleOutcomes ==
  \A t \in Threads :
    entry[t] \in FallibleEntries /\ Allocated(t) =>
      /\ pc[t] # "aborted"
      /\ AllocFailed(t) => pc[t] = "done" /\ result[t].kind = "None" /\ b[t] = Null
      /\ result[t].kind = "None" => AllocFailed(t)
      /\ ~AllocFailed(t) /\ pc[t] = "done" =>
           \/ /\ result[t].kind = "Some"
              /\ arg[t].kind # "panics"
              /\ result[t].box = b[t]
              /\ result[t].box # Null
              /\ IsInit(Contents(t))
           \/ /\ result[t].kind = "panic"
              /\ entry[t] = "try_new_with"
              /\ arg[t].kind = "panics"

C1_Witness ==
  \E t \in Threads :
    /\ entry[t] \in FallibleEntries
    /\ pc[t] = "done"
    /\ AllocFailed(t)
    /\ result[t].kind = "None"

\* C2: an infallible entry point for a type with size > 0 whose allocator
\* request was answered null calls handle_alloc_error with the size and
\* alignment of that request, and returns nothing; handle_alloc_error is
\* called for no other reason.
C2_InfallibleAborts ==
  /\ \A t \in Threads :
       UsesNewBox(entry[t]) /\ ty[t].size # 0 /\ AllocFailed(t) =>
         /\ pc[t] = "aborted"
         /\ hookCalls = <<[size |-> req[t].size, align |-> req[t].align]>>
         /\ req[t].size = ty[t].size
         /\ req[t].align = ty[t].align
         /\ result[t] = Pending
         /\ b[t] = Null
  /\ Len(hookCalls) <= 1
  /\ hookCalls # <<>> =>
       \E t \in Threads : pc[t] = "aborted" /\ UsesNewBox(entry[t]) /\ AllocFailed(t)

C2_Witness ==
  \E t \in Threads :
    /\ entry[t] \in {"new_with", "new_zeroed"}
    /\ ty[t].size # 0
    /\ AllocFailed(t)
    /\ pc[t] = "aborted"
    /\ hookCalls # <<>>

\* C3: for a zero-sized type every entry point gets its address without any
\* allocator request, whatever the allocator would answer; the address is the
\* non-null dangling sentinel; the call neither returns None nor reaches
\* handle_alloc_error, and no block of the allocator belongs to such a call.
C3_ZeroSizedNeverAllocates ==
  /\ \A t \in Threads :
       ty[t].size = 0 /\ Allocated(t) =>
         /\ req[t] = NoReq
         /\ b[t] = Dangling(ty[t])
         /\ b[t] # Null
         /\ b[t] \notin HeapAddrs
         /\ pc[t] # "aborted"
         /\ result[t].kind # "None"
         /\ Returned(t) => result[t].box = Dangling(ty[t])
         /\ \A answer \in {Null} \cup HeapAddrs :
              /\ try_new_box(ty[t], ZeroedArg(entry[t]), answer).ok
              /\ try_new_box(ty[t], ZeroedArg(entry[t]), answer).box = Dangling(ty[t])
  /\ \A a \in HeapAddrs : heap[a].live => ty[heap[a].owner].size # 0

C3_Witness ==
  \E t \in Threads :
    /\ ty[t].size = 0
    /\ entry[t] \in EntryPoints
    /\ Returned(t)
    /\ req[t] = NoReq

\* C4: a Box returned by new_zeroed / try_new_zeroed holds only zero bytes,
\* its storage came from alloc_zeroed (never alloc), no producer ran and
\* nothing was written to the storage.
C4_ZeroedIsAllZero ==
  \A t \in Threads :
    entry[t] \in ZeroedEntries /\ Returned(t) =>
      /\ ty[t].zero
      /\ Len(Contents(t)) = ty[t].size
      /\ \A i \in DOMAIN Contents(t) : Contents(t)[i] = 0
      /\ ty[t].size # 0 => req[t].mode = "alloc_zeroed"
      /\ req[t].mode # "alloc"
      /\ Count(trace[t], "f") = 0
      /\ Count(trace[t], "write") = 0
      /\ ty[t].size # 0 => heap[result[t].box].writers = {}

C4_Witness ==
  \E t \in Threads :
    /\ entry[t] \in ZeroedEntries
    /\ Returned(t)
    /\ ty[t].size # 0
    /\ req[t].mode = "alloc_zeroed"

\* C5: a Box returned by new_with(P) / try_new_with(P) holds exactly the value
\* P returned.
C5_HoldsProducedValue ==
  \A t \in Threads :
    entry[t] \in WithEntries /\ Returned(t) =>
      /\ arg[t].kind = "returns"
      /\ Contents(t) = arg[t].val

C5_Witness ==
  \E t \in Threads :
    /\ entry[t] \in WithEntries
    /\ Returned(t)
    /\ ty[t].size # 0
    /\ arg[t].val # Zeros(ty[t].size)
    /\ Contents(t) = arg[t].val

\* C6: try_new(v) and try_new_with(|| v) for the same type make the same
\* allocator request, and under the same allocator answer (null or a block)
\* end the same way: both None, or both Some holding v.
C6_TryNewEquivTryNewWith ==
  \A t1, t2 \in Threads :
    /\ entry[t1] = "try_new"
    /\ entry[t2] = "try_new_with"
    /\ ty[t1] = ty[t2]
    /\ arg[t2].kind = "returns"
    /\ arg[t1].val = arg[t2].val
    =>
    /\ Allocated(t1) /\ Allocated(t2) =>
         /\ req[t1].mode = req[t2].mode
         /\ req[t1].size = req[t2].size
         /\ req[t1].align = req[t2].align
    /\ pc[t1] = "done" /\ pc[t2] = "done" /\ (AllocFailed(t1) <=> AllocFailed(t2)) =>
         /\ result[t1].kind = result[t2].kind
         /\ result[t1].kind \in {"None", "Some"}
         /\ result[t1].kind = "None" <=> AllocFailed(t1)
         /\ Returned(t1) =>
              /\ Contents(t1) = arg[t1].val
              /\ Contents(t2) = arg[t1].val

C6_Witness ==
  \E t1, t2 \in Threads :
    /\ entry[t1] = "try_new"
    /\ entry[t2] = "try_new_with"
    /\ ty[t1] = ty[t2]
    /\ ty[t1].size # 0
    /\ arg[t2].kind = "returns"
    /\ arg[t1].val = arg[t2].val
    /\ arg[t1].val # Zeros(ty[t1].size)
    /\ Returned(t1)
    /\ Returned(t2)

\* C7 (as stated): when the producer panics, no Box over storage that was
\* never written is dropped as if it held a value.
C7_NoUninitBoxDropped ==
  \A t \in Threads :
    arg[t].kind = "panics" => \A i \in DOMAIN dropLog[t] : dropLog[t][i].init

\* C8: a Box returned to the caller owns fully initialized storage: a live
\* block of its own, of the size of the type, without a poison byte; storage
\* obtained from alloc was written before the Box was returned.
C8_ReturnedIsInitialized ==
  \A t \in Threads :
    Returned(t) =>
      /\ result[t].box # Null
      /\ Len(Contents(t)) = ty[t].size
      /\ IsInit(Contents(t))
      /\ ty[t].size # 0 =>
           /\ result[t].box \in HeapAddrs
           /\ heap[result[t].box].live
           /\ heap[result[t].box].owner = t
      /\ req[t].mode = "alloc" =>
           /\ Count(trace[t], "write") = 1
           /\ trace[t][Len(trace[t])] = "write"
           /\ t \in heap[result[t].box].writers
      /\ entry[t] \in ZeroedEntries => req[t].mode # "alloc"

C8_Witness ==
  \E t \in Threads :
    /\ Returned(t)
    /\ req[t].mode = "alloc"
    /\ IsInit(Contents(t))

\* C9 (as stated): every finished new_with / try_new_with call allocated,
\* then invoked the producer exactly once, then wrote the value.
C9_AlwaysAllThreeSteps ==
  \A t \in Threads :
    entry[t] \in WithEntries /\ pc[t] \in {"done", "aborted"} =>
      trace[t] = ProducerSteps

\* C9 (amended): the steps of a new_with / try_new_with call are, in this
\* order, the allocation, one invocation of the producer, the write.  The
\* producer is invoked exactly once when the allocation succeeded and not at
\* all when it failed, never before the allocation and never twice; the write
\* happens exactly when the producer returned a value.
C9_ProducerOrder ==
  \A t \in Threads :
    entry[t] \in WithEntries =>
      /\ IsPrefix(trace[t], ProducerSteps)
      /\ Count(trace[t], "f") <= 1
      /\ pc[t] \in {"done", "aborted"} =>
           /\ Allocated(t)
           /\ AllocFailed(t) => trace[t] = <<"try_new_box">>
           /\ ~AllocFailed(t) => Count(trace[t], "f") = 1
           /\ ~AllocFailed(t) /\ arg[t].kind = "returns" => trace[t] = ProducerSteps
           /\ arg[t].kind = "panics" => Count(trace[t], "write") = 0
      /\ Returned(t) => trace[t] = ProducerSteps

C9_Witness ==
  \E t \in Threads :
    /\ entry[t] \in WithEntries
    /\ Returned(t)
    /\ trace[t] = ProducerSteps

\* A thread holds the block its Box points to, from the allocation until the
\* Box is dropped.
Holds(t) ==
  /\ b[t] \in HeapAddrs
  /\ \/ pc[t] \in {"call_f", "write", "return"}
     \/ Returned(t)

\* C10: with an allocator that hands out free blocks only, concurrent calls
\* share no storage: a block is written only by the call whose request
\* returned it, and two calls never hold the same block at the same time.
C10_NoSharedStorage ==
  /\ \A a \in HeapAddrs :
       /\ heap[a].writers \subseteq {heap[a].owner}
       /\ heap[a].writers # {} => heap[a].live
       /\ heap[a].live =>
            /\ heap[a].owner \in Threads
            /\ req[heap[a].owner].ret = a
            /\ b[heap[a].owner] = a
  /\ \A t \in Threads : Holds(t) => heap[b[t]].live /\ heap[b[t]].owner = t
  /\ \A t1, t2 \in Threads :
       t1 # t2 /\ Holds(t1) /\ Holds(t2) => b[t1] # b[t2]

C10_Witness ==
  \E t1, t2 \in Threads :
    /\ t1 # t2
    /\ Returned(t1)
    /\ Returned(t2)
    /\ ty[t1].size # 0
    /\ ty[t2].size # 0
    /\ req[t1].mode = "alloc"
    /\ req[t2].mode = "alloc"
    /\ t1 \in heap[b[t1]].writers
    /\ t2 \in heap[b[t2]].writers

====
